---- MODULE Spec2Model ----
(***************************************************************************)
(* Model of miramail: the bulk-fetch fan-out and the thread search of the  *)
(* Gmail client (miramail/gmail/client.py), the responder loop             *)
(* (miramail/main.py), the label mutation of a message                     *)
(* (miramail/gmail/message.py) and the attachment payload                  *)
(* (miramail/gmail/attachment.py).                                         *)
(*                                                                         *)
(* The specifications share the variables below:                           *)
(*   SpecChunk       the partition arithmetic of the fan-out, for every N; *)
(*   SpecFanOut      one _get_threads_from_refs / _get_messages_from_refs  *)
(*                   call with its worker threads;                         *)
(*   SpecRespond     one MiraMail.respond() invocation;                    *)
(*   SpecLabels      label-mutating calls on one Message;                  *)
(*   SpecGetThreads  one Gmail.get_threads call, pages and resolution;     *)
(*   SpecAttachment  download() / save() calls on one Attachment;          *)
(*   SpecNested      the message fan-outs run inside the thread workers;   *)
(*   SpecPoll        consecutive respond() invocations of the polling loop.*)
(***************************************************************************)
EXTENDS Integers, Sequences, FiniteSets, TLC

VARIABLES
    \* ---- SpecChunk ----
    cn,            \* len(thread_refs) under examination
    ci,            \* chunk index the walk has reached
    csum,          \* sum of the chunk sizes walked so far
    \* ---- SpecFanOut ----
    thread_refs,   \* the reference list handed to the call
    parallel,      \* the parallel argument
    failRef,       \* index (0-based) of the reference whose fetch fails, -1: none
    pc,            \* position of the calling thread
    k,             \* loop index of the calling thread (comprehension / start / join)
    acc,           \* list built by the sequential comprehension
    thread_lists,  \* the pre-sized slot list, one slot per worker
    wpc,           \* position of each worker thread
    wpos,          \* index i of each worker's comprehension
    wacc,          \* list each worker's comprehension has built so far
    conn,          \* state of the client connection each worker owns
    result,        \* the returned list
    error,         \* the exception that left the call, "none" if none
    order,         \* history: worker numbers in the order the threads ended
    creds_expired, \* self.creds.expired of the credentials object all clients share
    expiries,      \* how often the access token has run out so far
    refreshed,     \* history: <<worker, where>> for each refresh done in a worker thread
    writes,        \* history: <<worker, slot>> for each slot assignment
    \* ---- SpecGetThreads ----
    pages,         \* the responses the provider gives to the list requests, in order
    pageNo,        \* number of list requests issued
    failPage,      \* number of the list request that fails, 0: none
    \* ---- SpecLabels ----
    label_ids,     \* Message.label_ids
    lpc,           \* "idle", or the outcome of the last call: "returned" / "raised"
    lerr,          \* exception of the last call, "none" if none
    lcall,         \* the last call: method, to_add, to_remove
    lbefore,       \* label_ids when the last call began
    lreqs,         \* the modify / trash / untrash requests the last call sent
    lres,          \* labelIds of the response to the last call's request
    lcalls,        \* number of calls made
    \* ---- SpecAttachment ----
    data,          \* Attachment.data
    data0,         \* history: Attachment.data at construction
    payload,       \* res["data"] the provider holds for the attachment
    fetches,       \* history: number of attachments().get requests issued
    files,         \* the file system: path -> content, or Absent
    apc,           \* "idle", or the outcome of the last call
    aerr,          \* exception of the last call, "none" if none
    acall,         \* the last call
    aops,          \* number of calls made
    \* ---- SpecRespond ----
    threads,       \* what client.get_threads returns (messages mutated in place)
    send_type_arg, \* send_type given to MiraMail(...), "unset" if not given
    call,          \* MiraMail.call: "custom" if a call class was given, else "default"
    rpc,           \* position of respond()
    ti,            \* index (1-based) of the thread the for loop is at
    reply,         \* call_response.content of the thread being handled
    log,           \* history: the calls made on the client, the model call and the messages
    rerror,        \* the exception that left respond(), "none" if none
    handle_body,   \* argument the caller passes to respond(): "given" / "omitted"
    mailbox,       \* the threads as the provider holds them
    invocation,    \* number of respond() invocations begun
    \* ---- SpecLabels (continued) ----
    fields,        \* the fields of the Message other than label_ids
    \* ---- SpecNested ----
    nrefs,         \* len(thread_refs) of the get_threads call
    tw             \* per thread worker: state, position, message workers

chunkVars == <<cn, ci, csum>>
credVars == <<creds_expired, expiries, refreshed>>
fanVars == <<thread_refs, parallel, failRef, pc, k, acc, thread_lists,
             wpc, wpos, wacc, conn, result, error, order, credVars, writes>>
pageVars == <<pages, pageNo, failPage>>
labVars == <<label_ids, lpc, lerr, lcall, lbefore, lreqs, lres, lcalls, fields>>
attVars == <<data, data0, payload, fetches, files, apc, aerr, acall, aops>>
respVars == <<threads, send_type_arg, call, rpc, ti, reply, log, rerror,
              handle_body, mailbox, invocation>>
nestVars == <<nrefs, tw>>
otherVars == <<pageVars, labVars, attVars, nestVars>>
vars == <<chunkVars, fanVars, respVars, otherVars>>

\* ---------------------------------------------------------------------------
\* Bounds
\* ---------------------------------------------------------------------------
MaxN == 125        \* largest list length of the partition walk
MaxRefs == 21      \* largest reference list of the fan-out run
MaxExpiries == 1   \* how often the access token runs out during one call

\* ---------------------------------------------------------------------------
\* Partition arithmetic (client.py 143-155)
\* ---------------------------------------------------------------------------
max_num_threads == 12
target_thrds_per_thread == 10

Min(a, b) == IF a <= b THEN a ELSE b

\* math.ceil(a / b) for a >= 0, b >= 1
Ceil(a, b) == (a + b - 1) \div b

NumThreadsUncapped(n) == Ceil(n, target_thrds_per_thread)
NumThreads(n) == Min(Ceil(n, target_thrds_per_thread), max_num_threads)

BatchSizeFloor(n) == n \div NumThreads(n)
BatchSize(n) == Ceil(n, NumThreads(n))

ChunkStart(n, t) == t * BatchSize(n)

ChunkEnd(n, t) == Min(n, (t + 1) * BatchSize(n))

\* len(range(start, end))
RangeLen(s, e) == IF e > s THEN e - s ELSE 0
ChunkSize(n, t) == RangeLen(ChunkStart(n, t), ChunkEnd(n, t))

\* ---------------------------------------------------------------------------
\* Fan-out: entities and list helpers
\* ---------------------------------------------------------------------------
\* The entity _build_thread_from_ref makes of a reference.
BuildFromRef(ref) == [kind |-> "Thread", id |-> ref.id]

\* thread_refs[i] with Python's 0-based index
RefAt(i) == thread_refs[i + 1]

SumListsReversed(lists, n) ==
    LET RECURSIVE Cat(_)
        Cat(j) == IF j = n THEN <<>> ELSE Cat(j + 1) \o lists[j]
    IN Cat(0)
\* sum(thread_lists, []): the slots concatenated in index order
SumLists(lists, n) ==
    LET RECURSIVE Cat(_)
        Cat(j) == IF j = n THEN <<>> ELSE lists[j] \o Cat(j + 1)
    IN Cat(0)

Workers == DOMAIN wpc
N == Len(thread_refs)

\* ---------------------------------------------------------------------------
\* SpecChunk: walk over the chunks of a list of length cn
\* ---------------------------------------------------------------------------
FanIdle ==
    /\ thread_refs = <<>> /\ parallel = TRUE /\ failRef = -1
    /\ pc = "idle" /\ k = 0 /\ acc = <<>>
    /\ thread_lists = <<>> /\ wpc = <<>> /\ wpos = <<>> /\ wacc = <<>>
    /\ conn = <<>> /\ result = <<>> /\ error = "none" /\ order = <<>>
    /\ creds_expired = FALSE /\ expiries = 0 /\ refreshed = {} /\ writes = {}

PageIdle == pages = <<>> /\ pageNo = 0 /\ failPage = 0

LabIdle ==
    /\ label_ids = <<>> /\ lpc = "idle" /\ lerr = "none" /\ lcall = <<>>
    /\ lbefore = <<>> /\ lreqs = <<>> /\ lres = <<>> /\ lcalls = 0
    /\ fields = <<>>

NestIdle == nrefs = 0 /\ tw = <<>>

AttIdle ==
    /\ data = <<>> /\ data0 = <<>> /\ payload = <<>> /\ fetches = 0 /\ files = <<>>
    /\ apc = "idle" /\ aerr = "none" /\ acall = <<>> /\ aops = 0

OtherIdle == PageIdle /\ LabIdle /\ AttIdle /\ NestIdle

RespIdle ==
    /\ threads = <<>> /\ send_type_arg = "unset" /\ call = "default"
    /\ rpc = "idle" /\ ti = 0 /\ reply = <<>> /\ log = <<>> /\ rerror = "none"
    /\ handle_body = "omitted" /\ mailbox = <<>> /\ invocation = 0

ChunkInit ==
    /\ cn \in 1..MaxN
    /\ ci = 0
    /\ csum = 0
    /\ FanIdle
    /\ RespIdle
    /\ OtherIdle

ChunkStep ==
    /\ ci < NumThreads(cn)
    /\ csum' = csum + ChunkSize(cn, ci)
    /\ ci' = ci + 1
    /\ UNCHANGED <<cn, fanVars, respVars, otherVars>>

ChunkNext == ChunkStep

SpecChunk == ChunkInit /\ [][ChunkNext]_vars

\* ---------------------------------------------------------------------------
\* SpecFanOut: _get_threads_from_refs (client.py 107-174)
\* ---------------------------------------------------------------------------
FanInit ==
    /\ cn = 0 /\ ci = 0 /\ csum = 0
    /\ \E n \in 0..MaxRefs :
         /\ thread_refs = [i \in 1..n |-> [id |-> 100 + n - i]]
         /\ failRef \in -1..(n - 1)
    /\ parallel \in BOOLEAN
    /\ pc = "call"
    /\ k = 0
    /\ acc = <<>>
    /\ thread_lists = <<>>
    /\ wpc = <<>> /\ wpos = <<>> /\ wacc = <<>> /\ conn = <<>>
    /\ result = <<>>
    /\ error = "none"
    /\ order = <<>>
    /\ creds_expired = FALSE /\ expiries = 0 /\ refreshed = {} /\ writes = {}
    /\ RespIdle
    /\ OtherIdle

\* Gmail.__init__ in a worker (client.py 75-90): credentials that are not valid
\* are refreshed in place and the token file is rewritten
InitRefresh(t) ==
    IF creds_expired
      THEN /\ creds_expired' = FALSE
           /\ refreshed' = refreshed \cup {<<t, "init">>}
      ELSE UNCHANGED <<creds_expired, refreshed>>

\* the service property in a worker (client.py 100-105): expired credentials
\* are refreshed in place
ServiceRefresh(t) ==
    IF creds_expired
      THEN /\ creds_expired' = FALSE
           /\ refreshed' = refreshed \cup {<<t, "service">>}
      ELSE UNCHANGED <<creds_expired, refreshed>>

\* the access token runs out while the call is under way
Expire ==
    /\ pc \notin {"idle", "returned", "raised"}
    /\ ~creds_expired
    /\ expiries < MaxExpiries
    /\ creds_expired' = TRUE
    /\ expiries' = expiries + 1
    /\ UNCHANGED <<chunkVars, respVars, otherVars, refreshed, writes, thread_refs,
                   parallel, failRef, pc, k, acc, thread_lists, wpc, wpos, wacc,
                   conn, result, error, order>>

\* if not thread_refs: return []
ReturnEmpty ==
    /\ pc = "call"
    /\ N = 0
    /\ result' = <<>>
    /\ pc' = "returned"
    /\ UNCHANGED <<chunkVars, respVars, otherVars, credVars, writes, order, thread_refs, parallel, failRef, k, acc,
                   thread_lists, wpc, wpos, wacc, conn, error>>

\* if not parallel: the comprehension over thread_refs starts
SeqBegin ==
    /\ pc = "call"
    /\ N > 0
    /\ ~parallel
    /\ pc' = "seq"
    /\ k' = 0
    /\ acc' = <<>>
    /\ UNCHANGED <<chunkVars, respVars, otherVars, credVars, writes, order, thread_refs, parallel, failRef, thread_lists,
                   wpc, wpos, wacc, conn, result, error>>

\* one self._build_thread_from_ref(user_id, ref, attachments) of the
\* sequential comprehension; an HttpError leaves the call
SeqFetch ==
    /\ pc = "seq"
    /\ k < N
    /\ IF k = failRef
         THEN /\ error' = "HttpError"
              /\ pc' = "raised"
              /\ UNCHANGED <<k, acc>>
         ELSE /\ acc' = Append(acc, BuildFromRef(RefAt(k)))
              /\ k' = k + 1
              /\ UNCHANGED <<pc, error>>
    /\ creds_expired' = FALSE
    /\ UNCHANGED <<chunkVars, respVars, otherVars, expiries, refreshed, writes, order, thread_refs, parallel, failRef, thread_lists,
                   wpc, wpos, wacc, conn, result>>

SeqReturn ==
    /\ pc = "seq"
    /\ k = N
    /\ result' = acc
    /\ pc' = "returned"
    /\ UNCHANGED <<chunkVars, respVars, otherVars, credVars, writes, order, thread_refs, parallel, failRef, k, acc,
                   thread_lists, wpc, wpos, wacc, conn, error>>

\* num_threads, batch_size, thread_lists = [[] for _ in range(num_threads)],
\* and the list of (unstarted) threading.Thread objects
ParBegin ==
    /\ pc = "call"
    /\ N > 0
    /\ parallel
    /\ thread_lists' = [t \in 0..(NumThreads(N) - 1) |-> <<>>]
    /\ wpc' = [t \in 0..(NumThreads(N) - 1) |-> "unstarted"]
    /\ wpos' = [t \in 0..(NumThreads(N) - 1) |-> 0]
    /\ wacc' = [t \in 0..(NumThreads(N) - 1) |-> <<>>]
    /\ conn' = [t \in 0..(NumThreads(N) - 1) |-> "none"]
    /\ pc' = "start"
    /\ k' = 0
    /\ UNCHANGED <<chunkVars, respVars, otherVars, credVars, writes, order, thread_refs, parallel, failRef, acc, result, error>>

\* for t in threads: t.start()
StartWorker ==
    /\ pc = "start"
    /\ IF k < NumThreads(N)
         THEN /\ wpc' = [wpc EXCEPT ![k] = "new"]
              /\ k' = k + 1
              /\ pc' = pc
         ELSE /\ pc' = "join"
              /\ k' = 0
              /\ wpc' = wpc
    /\ UNCHANGED <<chunkVars, respVars, otherVars, credVars, writes, order, thread_refs, parallel, failRef, acc,
                   thread_lists, wpos, wacc, conn, result, error>>

\* gmail = Gmail(_creds=self.creds); start = thread_num * batch_size
WorkerOpen(t) ==
    /\ wpc[t] = "new"
    /\ conn' = [conn EXCEPT ![t] = "open"]
    /\ wpos' = [wpos EXCEPT ![t] = ChunkStart(N, t)]
    /\ wacc' = [wacc EXCEPT ![t] = <<>>]
    /\ wpc' = [wpc EXCEPT ![t] = "fetch"]
    /\ InitRefresh(t)
    /\ UNCHANGED <<chunkVars, respVars, otherVars, expiries, writes, order, thread_refs, parallel, failRef, pc, k, acc,
                   thread_lists, result, error>>

\* one gmail._build_thread_from_ref(user_id, thread_refs[i], attachments) of
\* the worker's comprehension.  An HttpError is not caught in the thread
\* target: it ends the worker thread, the slot assignment and
\* gmail.service.close() are never reached, and nothing reaches the caller.
WorkerFetch(t) ==
    /\ wpc[t] = "fetch"
    /\ wpos[t] < ChunkEnd(N, t)
    /\ IF wpos[t] = failRef
         THEN /\ wpc' = [wpc EXCEPT ![t] = "dead"]
              /\ order' = Append(order, t)
              /\ UNCHANGED <<wpos, wacc>>
         ELSE /\ wacc' = [wacc EXCEPT ![t] = Append(@, BuildFromRef(RefAt(wpos[t])))]
              /\ wpos' = [wpos EXCEPT ![t] = @ + 1]
              /\ UNCHANGED <<wpc, order>>
    /\ ServiceRefresh(t)
    /\ UNCHANGED <<chunkVars, respVars, otherVars, expiries, writes, thread_refs, parallel, failRef, pc, k, acc,
                   thread_lists, conn, result, error>>

\* thread_lists[thread_num] = [...]
WorkerStore(t) ==
    /\ wpc[t] = "fetch"
    /\ wpos[t] >= ChunkEnd(N, t)
    /\ thread_lists' = [thread_lists EXCEPT ![t] = wacc[t]]
    /\ wpc' = [wpc EXCEPT ![t] = "close"]
    /\ writes' = writes \cup {<<t, t>>}
    /\ UNCHANGED <<chunkVars, respVars, otherVars, credVars, order, thread_refs, parallel, failRef, pc, k, acc,
                   wpos, wacc, conn, result, error>>

\* gmail.service.close()
WorkerClose(t) ==
    /\ wpc[t] = "close"
    /\ conn' = [conn EXCEPT ![t] = "closed"]
    /\ wpc' = [wpc EXCEPT ![t] = "done"]
    /\ order' = Append(order, t)
    /\ ServiceRefresh(t)
    /\ UNCHANGED <<chunkVars, respVars, otherVars, expiries, writes, thread_refs, parallel, failRef, pc, k, acc,
                   thread_lists, wpos, wacc, result, error>>

WorkerTerminated(t) == wpc[t] \in {"done", "dead"}

\* for t in threads: t.join()   (join returns when the thread has ended,
\* whether it ended normally or by an exception)
JoinWorker ==
    /\ pc = "join"
    /\ k < NumThreads(N)
    /\ WorkerTerminated(k)
    /\ k' = k + 1
    /\ UNCHANGED <<chunkVars, respVars, otherVars, credVars, writes, order, thread_refs, parallel, failRef, pc, acc,
                   thread_lists, wpc, wpos, wacc, conn, result, error>>

\* return sum(thread_lists, [])
ParReturn ==
    /\ pc = "join"
    /\ k = NumThreads(N)
    /\ result' = SumLists(thread_lists, NumThreads(N))
    /\ pc' = "returned"
    /\ UNCHANGED <<chunkVars, respVars, otherVars, credVars, writes, order, thread_refs, parallel, failRef, k, acc,
                   thread_lists, wpc, wpos, wacc, conn, error>>

FanNext ==
    \/ ReturnEmpty
    \/ SeqBegin
    \/ SeqFetch
    \/ SeqReturn
    \/ ParBegin
    \/ StartWorker
    \/ \E t \in Workers : WorkerOpen(t)
    \/ \E t \in Workers : WorkerFetch(t)
    \/ \E t \in Workers : WorkerStore(t)
    \/ \E t \in Workers : WorkerClose(t)
    \/ JoinWorker
    \/ ParReturn
    \/ Expire

SpecFanOut == FanInit /\ [][FanNext]_vars

\* ---------------------------------------------------------------------------
\* Properties of the fan-out
\* ---------------------------------------------------------------------------
\* What the sequential path makes of the reference list: one entity per
\* reference, in the order of the references.
InOrder == [i \in 1..N |-> [kind |-> "Thread", id |-> thread_refs[i].id]]

AnyFetchFailed == error # "none" \/ \E t \in Workers : wpc[t] = "dead"

\* C1: when no fetch fails, the call returns, with parallel=True as with
\* parallel=False and whatever the order in which the workers ran and ended,
\* one resolved entity per reference in the order of the input references.
C1_ParallelEqualsSequential ==
    (pc = "returned" /\ failRef = -1) => result = InOrder

\* C1 witness: a parallel call over three chunks has returned the full list
\* although worker 0 was not the first worker to end.
C1_Witness ==
    /\ pc = "returned" /\ parallel /\ failRef = -1
    /\ NumThreads(N) = 3
    /\ Len(order) = 3 /\ order[1] = 2 /\ order[3] = 0
    /\ Len(result) = N

\* C2 (as stated): the chunk sizes sum to N and none of the P chunks is empty.
C2_SumAndNoEmptyChunk ==
    /\ (ci = NumThreads(cn) => csum = cn)
    /\ \A t \in 0..(ci - 1) : ChunkEnd(cn, t) > ChunkStart(cn, t)

\* C2 (amended): the chunk sizes sum to N, and no chunk is empty unless
\* N = 121, where batch_size = 11 and the twelfth chunk is [121, 121).
C2_SumAndNoEmptyChunkBut121 ==
    /\ (ci = NumThreads(cn) => csum = cn)
    /\ (cn # 121 => \A t \in 0..(ci - 1) : ChunkEnd(cn, t) > ChunkStart(cn, t))
    /\ (cn = 121 => \A t \in 0..(ci - 1) :
            (ChunkEnd(cn, t) > ChunkStart(cn, t)) <=> (t # 11))

\* C2 witness: all twelve chunks of a list longer than 121 have been walked.
C2_Witness == cn > 121 /\ ci = 12 /\ ci = NumThreads(cn) /\ csum = cn

\* C3: a fetch that fails inside the call makes the call fail with that
\* error; the call never returns a list once a fetch has failed.
C3_AllOrNothing ==
    /\ (AnyFetchFailed => pc # "returned")
    /\ (pc = "returned" => Len(result) = N)

\* C4: a worker that has ended, normally or by an error, has closed the
\* connection it opened.
C4_ConnectionClosed ==
    \A t \in Workers : WorkerTerminated(t) => conn[t] = "closed"

\* ---------------------------------------------------------------------------
\* SpecRespond: MiraMail.respond (main.py 45-115)
\* ---------------------------------------------------------------------------
MaxThreads == 2     \* most threads get_threads returns
MaxMessages == 2    \* most messages in all the returned threads together

\* Strings are tuples of tokens; the empty tuple is the empty string "".
\* An Optional[str] field is a record: None, or Str(text).
None == [some |-> FALSE, text |-> <<>>]
Str(text) == [some |-> TRUE, text |-> text]

\* Python truthiness of an Optional[str]: None and "" are both false.
TruthyNotNone(v) == v.some
Truthy(v) == v.some /\ v.text # <<>>

\* The (html, plain) bodies a message can carry.
BodyKinds == {"none", "html", "plain", "both", "emptyhtml", "emptyplain"}

HtmlOf(kind, id) ==
    CASE kind \in {"html", "both"} -> Str(<<"html", id>>)
      [] kind = "emptyhtml"        -> Str(<<>>)
      [] OTHER                     -> None
PlainOf(kind, id) ==
    CASE kind \in {"plain", "both", "emptyhtml"} -> Str(<<"plain", id>>)
      [] kind = "emptyplain"                     -> Str(<<>>)
      [] OTHER                                   -> None

\* Python values handed to the label methods: a Label object, a str (with
\* its characters), or a list of either.
Label(id) == [tag |-> "Label", id |-> id, name |-> id]
PyStr(s, chars) == [tag |-> "str", s |-> s, chars |-> chars]
PyList(items) == [tag |-> "list", items |-> items]

\* label.UNREAD (label.py 74)
UNREAD == Label("UNREAD")

\* Message t.m of the mailbox snapshot (message.py 24-65)
MakeMessage(t, m, kind) ==
    [id        |-> 10 * t + m,
     thread_id |-> 100 + t,
     sender    |-> <<"sender", 10 * t + m>>,
     recipient |-> <<"recipient", 10 * t + m>>,
     subject   |-> <<"subject", 10 * t + m>>,
     html      |-> HtmlOf(kind, 10 * t + m),
     plain     |-> PlainOf(kind, 10 * t + m),
     label_ids |-> <<"INBOX", "UNREAD">>]

RECURSIVE SumLens(_, _)
SumLens(lens, n) == IF n = 0 THEN 0 ELSE lens[n] + SumLens(lens, n - 1)

\* The replies the model call can give.
Replies == {<<"reply", 1>>, <<"reply", 2>>}

\* send_type: Literal["send", "draft"] = "draft"   (main.py 39)
SendType == IF send_type_arg = "unset" THEN "draft" ELSE send_type_arg

\* len(messages) < 1   (main.py 52)
ShouldSkipNever(messages) == FALSE
ShouldSkipShort(messages) == Len(messages) < 2
ShouldSkipBodiless(messages) ==
    \A j \in 1..Len(messages) : ~messages[j].html.some /\ ~messages[j].plain.some
ShouldSkip(messages) == Len(messages) < 1

\* the body list _handle_thread builds (main.py 62-68)
RECURSIVE ExtractBodyPlainFirst(_)
ExtractBodyPlainFirst(messages) ==
    IF messages = <<>> THEN <<>>
    ELSE LET message == Head(messages)
             rest == ExtractBodyPlainFirst(Tail(messages))
         IN IF Truthy(message.plain) THEN <<message.plain.text>> \o rest
            ELSE IF Truthy(message.html) THEN <<message.html.text>> \o rest
            ELSE rest
RECURSIVE ExtractBody(_)
ExtractBody(messages) ==
    IF messages = <<>> THEN <<>>
    ELSE LET message == Head(messages)
             rest == ExtractBody(Tail(messages))
         IN IF Truthy(message.html) THEN <<message.html.text>> \o rest
            ELSE IF Truthy(message.plain) THEN <<message.plain.text>> \o rest
            ELSE rest

\* last_message = messages[-1]   (main.py 69)
LastIndexFirst(messages) == 1
LastIndex(messages) == Len(messages)

\* the keyword arguments _send_message / _draft_message pass on (main.py 90-97,
\* 107-114), as the envelope _create_message makes of them (client.py 431-478)
ReplyEnvelope(message, content) ==
    [To        |-> message.recipient,
     From      |-> message.sender,
     Subject   |-> message.subject,
     InReplyTo |-> message.id,
     threadId  |-> message.thread_id,
     html      |-> content]

\* if self.send_type == "send": ... else: ...   (main.py 77-80)
DeliveryOpSwapped(send_type) ==
    IF send_type = "send" THEN "create_draft" ELSE "send_message"
DeliveryOp(send_type) ==
    IF send_type = "send" THEN "send_message" ELSE "create_draft"

\* _create_update_labels (message.py 387-417): ids of Label objects, strings as is
LabelId(lbl) == IF lbl.tag = "Label" THEN lbl.id ELSE lbl.s
CreateUpdateLabels(to_add, to_remove) ==
    [addLabelIds    |-> [j \in 1..Len(to_add) |-> LabelId(to_add[j])],
     removeLabelIds |-> [j \in 1..Len(to_remove) |-> LabelId(to_remove[j])]]

\* list_add / list_remove of modify_labels (message.py 351-362): a single
\* Label or str becomes a one-element list; anything else leaves the list [].
ListOfSingle(arg) == IF arg.tag \in {"Label", "str"} THEN <<arg>> ELSE <<>>

\* the modify request of modify_labels (message.py 365-373)
ModifyRequest(message, to_add, to_remove) ==
    [id   |-> message.id,
     body |-> CreateUpdateLabels(ListOfSingle(to_add), ListOfSingle(to_remove))]

\* "for lbl in arg" (message.py 381-382): a list yields its elements, a Label
\* (a pydantic model) yields its (field name, value) pairs, a str its characters.
Iter(arg) ==
    CASE arg.tag = "list"  -> arg.items
      [] arg.tag = "Label" ->
            << [tag |-> "tuple", name |-> "id", value |-> arg.id],
               [tag |-> "tuple", name |-> "name", value |-> arg.name],
               [tag |-> "tuple", name |-> "message_list_visibility", value |-> "None"],
               [tag |-> "tuple", name |-> "label_list_visibility", value |-> "None"],
               [tag |-> "tuple", name |-> "type", value |-> "None"] >>
      [] arg.tag = "str"   ->
            [j \in 1..Len(arg.chars) |-> PyStr(arg.chars[j], <<arg.chars[j]>>)]

\* "lbl in res['labelIds']": == against each id string (label.py 61-68)
PyIn(lbl, labelIds) ==
    \E j \in 1..Len(labelIds) :
        CASE lbl.tag = "Label" -> lbl.id = labelIds[j]
          [] lbl.tag = "str"   -> lbl.s = labelIds[j]
          [] OTHER             -> FALSE

\* the assertion of modify_labels (message.py 381-383)
ModifyAssertion(to_add, to_remove, labelIds) ==
    /\ \A j \in 1..Len(Iter(to_add)) : PyIn(Iter(to_add)[j], labelIds)
    /\ \A j \in 1..Len(Iter(to_remove)) : ~PyIn(Iter(to_remove)[j], labelIds)

\* mark_as_read -> remove_label(label.UNREAD) -> modify_labels([], label.UNREAD)
\* (message.py 89, 332)
MarkAsReadAddArg == PyList(<<>>)
MarkAsReadRemoveArg == UNREAD

\* The label set the server answers a modify request with: the message's
\* labels without the removed ids, followed by the added ids not yet there.
InSeq(x, seq) == \E j \in 1..Len(seq) : seq[j] = x
ServerModify(labelIds, body) ==
    LET kept == SelectSeq(labelIds, LAMBDA l : ~InSeq(l, body.removeLabelIds))
        new == SelectSeq(body.addLabelIds, LAMBDA l : ~InSeq(l, kept))
    IN kept \o new

Messages(i) == threads[i].messages
Current == threads[ti]
LastMessage(messages) == messages[LastIndex(messages)]

RespondInit ==
    /\ cn = 0 /\ ci = 0 /\ csum = 0
    /\ FanIdle
    /\ OtherIdle
    /\ \E nt \in 0..MaxThreads :
         \E lens \in [1..nt -> 0..MaxMessages] :
           /\ SumLens(lens, nt) <= MaxMessages
           /\ \E kinds \in [{tm \in (1..nt) \X (1..MaxMessages) : tm[2] <= lens[tm[1]]}
                              -> BodyKinds] :
                threads = [t \in 1..nt |->
                             [id |-> 100 + t,
                              messages |-> [m \in 1..lens[t] |->
                                              MakeMessage(t, m, kinds[<<t, m>>])]]]
    /\ send_type_arg \in {"send", "draft", "unset"}
    /\ call \in {"custom", "default"}
    /\ handle_body \in {"omitted", "given"}
    /\ mailbox = threads
    /\ invocation = 1
    /\ rpc = "start"
    /\ ti = 0
    /\ reply = <<>>
    /\ log = <<>>
    /\ rerror = "none"

\* Where respond() is after an exception has left _handle_thread for thread i:
\* the for loop has no try/except, the exception leaves respond() (main.py 50-54)
OnExceptionIsolated(i) == [rpc |-> "loop", ti |-> i + 1]
OnException(i) == [rpc |-> "raised", ti |-> i]

\* "def respond(self)" (main.py 45): the method takes no argument, so a call
\* that passes one, respond(handle_body) or respond(handle_body=...), raises
\* TypeError before the body runs
AcceptsArgumentAny(arg) == TRUE
AcceptsArgument(arg) == arg = "omitted"

RespondTypeError ==
    /\ rpc = "start"
    /\ ~AcceptsArgument(handle_body)
    /\ rpc' = "raised"
    /\ rerror' = "TypeError"
    /\ UNCHANGED <<chunkVars, fanVars, otherVars, handle_body, invocation, mailbox,
                   threads, send_type_arg, call, ti, reply, log>>

\* the thread of the provider that holds the given id
MailboxIndex(id) == CHOOSE j \in 1..Len(mailbox) : mailbox[j].id = id

\* the message the provider adds to the thread for a reply that was sent or
\* drafted with threadId (client.py 608-722)
StoredReply(op, envelope, n) ==
    [id        |-> 10 * (envelope.threadId - 100) + n,
     thread_id |-> envelope.threadId,
     sender    |-> envelope.From,
     recipient |-> envelope.To,
     subject   |-> envelope.Subject,
     html      |-> Str(envelope.html),
     plain     |-> None,
     label_ids |-> IF op = "send_message" THEN <<"SENT">> ELSE <<"DRAFT">>]

\* threads = self.client.get_threads(labels=[label.UNREAD])
GetThreads ==
    /\ rpc = "start"
    /\ AcceptsArgument(handle_body)
    /\ log' = Append(log, [op |-> "get_threads", at |-> 0, labels |-> <<UNREAD.id>>])
    /\ \/ /\ rpc' = "loop"
          /\ ti' = 1
          /\ rerror' = rerror
       \/ /\ rpc' = "raised"
          /\ rerror' = "HttpError"
          /\ ti' = ti
    /\ UNCHANGED <<chunkVars, fanVars, otherVars, handle_body, invocation, mailbox, threads, send_type_arg, call, reply>>

\* if len(messages) < 1: continue
SkipThread ==
    /\ rpc = "loop"
    /\ ti <= Len(threads)
    /\ ShouldSkip(Current.messages)
    /\ ti' = ti + 1
    /\ UNCHANGED <<chunkVars, fanVars, otherVars, handle_body, invocation, mailbox, threads, send_type_arg, call, rpc,
                   reply, log, rerror>>

\* _handle_thread up to the model call: the body list, messages[-1] (an
\* IndexError on an empty list) and self.call(body=body).call() or
\* Reply(body=body).call()
Generate ==
    /\ rpc = "loop"
    /\ ti <= Len(threads)
    /\ ~ShouldSkip(Current.messages)
    /\ IF Len(Current.messages) = 0
         THEN /\ rpc' = OnException(ti).rpc
              /\ ti' = OnException(ti).ti
              /\ rerror' = "IndexError"
              /\ UNCHANGED <<reply, log>>
         ELSE /\ log' = Append(log, [op |-> "generate", at |-> ti, via |-> call,
                                     body |-> ExtractBody(Current.messages)])
              /\ \/ /\ \E r \in Replies : reply' = r
                    /\ rpc' = "generated"
                    /\ UNCHANGED <<ti, rerror>>
                 \/ /\ rpc' = OnException(ti).rpc
                    /\ ti' = OnException(ti).ti
                    /\ rerror' = "CallError"
                    /\ reply' = reply
    /\ UNCHANGED <<chunkVars, fanVars, otherVars, handle_body, invocation, mailbox, threads, send_type_arg, call>>

\* an exception of send_message / create_draft leaves _send_message /
\* _draft_message before message.mark_as_read() and then respond()
\* (main.py 88-98, 106-115)
OnDeliveryErrorSwallowed(i) == [rpc |-> "delivered", ti |-> i]
OnDeliveryError(i) == OnException(i)

\* _send_message / _draft_message up to the client call
Deliver ==
    /\ rpc = "generated"
    /\ log' = Append(log, [op |-> DeliveryOp(SendType), at |-> ti,
                           msg |-> ReplyEnvelope(LastMessage(Current.messages), reply)])
    /\ \/ /\ rpc' = "delivered"
          /\ LET j == MailboxIndex(Current.id)
                 envelope == ReplyEnvelope(LastMessage(Current.messages), reply)
             IN mailbox' = [mailbox EXCEPT ![j].messages =
                              Append(@, StoredReply(DeliveryOp(SendType), envelope,
                                                    Len(@) + 1))]
          /\ UNCHANGED <<ti, rerror>>
       \/ /\ rpc' = OnDeliveryError(ti).rpc
          /\ ti' = OnDeliveryError(ti).ti
          /\ rerror' = "HttpError"
          /\ UNCHANGED mailbox
    /\ UNCHANGED <<chunkVars, fanVars, otherVars, handle_body, invocation, threads, send_type_arg, call, reply>>

\* message.mark_as_read(): one modify request; when the server has answered
\* and the assertion holds, label_ids becomes res["labelIds"] and the for loop
\* moves on
MarkAsRead ==
    /\ rpc = "delivered"
    /\ LET li == LastIndex(Current.messages)
           message == Current.messages[li]
           req == ModifyRequest(message, MarkAsReadAddArg, MarkAsReadRemoveArg)
           res == ServerModify(message.label_ids, req.body)
       IN /\ log' = Append(log, [op |-> "modify", at |-> ti, id |-> req.id,
                                 body |-> req.body])
          /\ \/ /\ mailbox' = [mailbox EXCEPT
                                  ![MailboxIndex(Current.id)].messages[li].label_ids = res]
                /\ IF ModifyAssertion(MarkAsReadAddArg, MarkAsReadRemoveArg, res)
                     THEN /\ threads' = [threads EXCEPT
                                           ![ti].messages[li].label_ids = res]
                          /\ rpc' = "loop"
                          /\ ti' = ti + 1
                          /\ rerror' = rerror
                     ELSE /\ rpc' = OnException(ti).rpc
                          /\ ti' = OnException(ti).ti
                          /\ rerror' = "AssertionError"
                          /\ UNCHANGED threads
             \/ /\ rpc' = OnException(ti).rpc
                /\ ti' = OnException(ti).ti
                /\ rerror' = "HttpError"
                /\ UNCHANGED <<threads, mailbox>>
    /\ UNCHANGED <<chunkVars, fanVars, otherVars, handle_body, invocation, send_type_arg, call, reply>>

\* the for loop is exhausted: respond() returns
RespondReturn ==
    /\ rpc = "loop"
    /\ ti > Len(threads)
    /\ rpc' = "done"
    /\ UNCHANGED <<chunkVars, fanVars, otherVars, handle_body, invocation, mailbox, threads, send_type_arg, call, ti,
                   reply, log, rerror>>

RespondNext ==
    \/ RespondTypeError
    \/ GetThreads
    \/ SkipThread
    \/ Generate
    \/ Deliver
    \/ MarkAsRead
    \/ RespondReturn

SpecRespond == RespondInit /\ [][RespondNext]_vars

\* ---------------------------------------------------------------------------
\* Properties of respond()
\* ---------------------------------------------------------------------------
Deliveries == {"send_message", "create_draft"}
LogIdx == 1..Len(log)
ThreadIdx == 1..Len(threads)
NonEmpty(i) == Len(threads[i].messages) >= 1
\* the most recent message of thread i: the last element of its messages
MostRecent(i) == threads[i].messages[Len(threads[i].messages)]
HasEntry(i, ops) == \E j \in LogIdx : log[j].at = i /\ log[j].op \in ops

\* C5: every delivered reply, sent or drafted, is addressed to the sender of
\* the thread's most recent message, and carries that message's subject, its
\* id as in-reply-to and its thread id.
C5_ReplyToOriginalSender ==
    \A j \in LogIdx : log[j].op \in Deliveries =>
        LET original == MostRecent(log[j].at)
        IN /\ log[j].msg.To = original.sender
           /\ log[j].msg.Subject = original.subject
           /\ log[j].msg.InReplyTo = original.id
           /\ log[j].msg.threadId = original.thread_id

\* C6: a thread with zero messages causes no generate, send_message,
\* create_draft or modify call and no exception, and the loop goes on to the
\* threads after it.
C6_EmptyThreadSkipped ==
    \A i \in ThreadIdx : ~NonEmpty(i) =>
        /\ \A j \in LogIdx : log[j].at # i
        /\ ~(rpc = "raised" /\ ti = i)
        /\ (ti = i => rpc = "loop")
        /\ (rpc = "done" =>
              \A i2 \in ThreadIdx : (i2 > i /\ NonEmpty(i2)) => HasEntry(i2, {"generate"}))

\* C6 witness: respond() has returned after skipping an empty first thread and
\* handling the thread after it.
C6_Witness ==
    /\ rpc = "done"
    /\ Len(threads) = 2 /\ ~NonEmpty(1) /\ NonEmpty(2)
    /\ ~HasEntry(1, {"generate", "modify"} \cup Deliveries)
    /\ HasEntry(2, {"modify"})

OpKind(op) ==
    CASE op \in Deliveries -> "deliver"
      [] op = "modify"     -> "mark_as_read"
      [] OTHER             -> op
Cycles(i) ==
    IF NonEmpty(i)
      THEN << <<"generate", i>>, <<"deliver", i>>, <<"mark_as_read", i>> >>
      ELSE <<>>
RECURSIVE CyclesFrom(_)
CyclesFrom(i) == IF i > Len(threads) THEN <<>> ELSE Cycles(i) \o CyclesFrom(i + 1)

\* C7: when no call fails, respond() makes, after its get_threads call, exactly
\* one generate, one delivery and one mark-as-read per thread that has a
\* message, thread after thread in the order returned, and nothing else.
C7_OneCyclePerNonEmptyThread ==
    rpc = "done" =>
        [j \in LogIdx |-> <<OpKind(log[j].op), log[j].at>>]
          = << <<"get_threads", 0>> >> \o CyclesFrom(1)

\* C7 witness: respond() has returned after two threads with a message each.
C7_Witness ==
    /\ rpc = "done"
    /\ Len(threads) = 2 /\ NonEmpty(1) /\ NonEmpty(2)
    /\ Len(log) = 7

\* The body list the claim describes, for a given reading of "has a body".
ClaimedBody(messages, Has(_)) ==
    LET kept == SelectSeq(messages, LAMBDA m : Has(m.html) \/ Has(m.plain))
    IN [j \in 1..Len(kept) |->
          IF Has(kept[j].html) THEN kept[j].html.text ELSE kept[j].plain.text]

\* C8 (as stated): the body list has, in message order, the HTML body of each
\* message that has one, else its plain body, and no entry for a message that
\* has neither (has: the field is set).
C8_BodyListHtmlFirst ==
    \A j \in LogIdx : log[j].op = "generate" =>
        log[j].body = ClaimedBody(threads[log[j].at].messages, TruthyNotNone)

\* C8 (amended): the same with "has a body" read as "the field is set and is
\* not the empty string": an empty HTML body falls back to the plain body, and
\* a message whose bodies are all unset or empty gets no entry.
C8_BodyListNonEmptyHtmlFirst ==
    \A j \in LogIdx : log[j].op = "generate" =>
        log[j].body = ClaimedBody(threads[log[j].at].messages, Truthy)

\* C8 witness: the model was called for a thread whose first message has both
\* bodies and whose second message has only a plain body.
C8_Witness ==
    \E j \in LogIdx :
        /\ log[j].op = "generate"
        /\ Len(threads[log[j].at].messages) = 2
        /\ log[j].body = << <<"html", 11>>, <<"plain", 12>> >>
        /\ threads[1].messages[1].plain = Str(<<"plain", 11>>)

\* C9: each handled thread gets exactly one delivery call, send_message when
\* send_type is "send" and create_draft when it is "draft" or was not given.
C9_ModeSelectsDelivery ==
    /\ \A j \in LogIdx :
         /\ (log[j].op = "send_message" => send_type_arg = "send")
         /\ (log[j].op = "create_draft" => send_type_arg \in {"draft", "unset"})
    /\ \A i \in ThreadIdx :
         Cardinality({j \in LogIdx : log[j].at = i /\ log[j].op \in Deliveries}) <= 1
    /\ (rpc = "delivered" => HasEntry(ti, Deliveries))
    /\ (rpc = "done" => \A i \in ThreadIdx : NonEmpty(i) => HasEntry(i, Deliveries))

\* C9 witness: respond() built without a send_type has returned after
\* creating a draft.
C9_Witness ==
    /\ rpc = "done"
    /\ send_type_arg = "unset"
    /\ \E j \in LogIdx : log[j].op = "create_draft"
    /\ \A j \in LogIdx : log[j].op # "send_message"

\* C10: every mark-as-read is one modify request that removes UNREAD (and adds
\* nothing) from the most recent message of the thread, right after that
\* thread's delivery; afterwards that message is no longer UNREAD, and no other
\* message has its labels changed.
C10_MarkMostRecentRead ==
    /\ \A j \in LogIdx : log[j].op = "modify" =>
         /\ log[j].id = MostRecent(log[j].at).id
         /\ log[j].body = [addLabelIds |-> <<>>, removeLabelIds |-> <<"UNREAD">>]
         /\ j > 1 /\ log[j - 1].op \in Deliveries /\ log[j - 1].at = log[j].at
    /\ \A i \in ThreadIdx : \A m \in 1..Len(threads[i].messages) :
         IF m = Len(threads[i].messages) /\ (i < ti \/ rpc = "done")
           THEN threads[i].messages[m].label_ids = <<"INBOX">>
           ELSE threads[i].messages[m].label_ids = <<"INBOX", "UNREAD">>
    /\ (rpc = "done" =>
          \A j \in LogIdx : log[j].op \in Deliveries =>
              j < Len(log) /\ log[j + 1].op = "modify")

\* C10 witness: in send mode a thread of two messages was answered; its second
\* message was marked read and its first was left unread.
C10_Witness ==
    /\ rpc = "done"
    /\ send_type_arg = "send"
    /\ Len(threads) = 1 /\ Len(threads[1].messages) = 2
    /\ \E j \in LogIdx : log[j].op = "modify" /\ log[j].id = 12
    /\ threads[1].messages[2].label_ids = <<"INBOX">>
    /\ threads[1].messages[1].label_ids = <<"INBOX", "UNREAD">>

\* C11: an exception raised while a thread is handled (by the model call, the
\* delivery or the mark-as-read) leaves respond(): no call is made for any
\* thread after the failing one, and the calls and label changes already made
\* for the threads before it stand.
C11_FailureAbortsRest ==
    /\ (rerror # "none" => rpc = "raised")
    /\ (rpc = "raised" /\ ti >= 1) =>
         /\ \A j \in LogIdx : log[j].at <= ti
         /\ log[Len(log)].at = ti
         /\ \A i \in 1..(ti - 1) : NonEmpty(i) =>
              /\ HasEntry(i, {"generate"})
              /\ HasEntry(i, Deliveries)
              /\ HasEntry(i, {"modify"})
              /\ MostRecent(i).label_ids = <<"INBOX">>

\* C11 witness: the delivery for the first of two threads failed; the second
\* thread has a message and no call was made for it.
C11_Witness ==
    /\ rpc = "raised" /\ rerror = "HttpError" /\ ti = 1
    /\ Len(threads) = 2 /\ NonEmpty(1) /\ NonEmpty(2)
    /\ HasEntry(1, Deliveries)
    /\ ~HasEntry(2, {"generate", "modify"} \cup Deliveries)


-----------------------------------------------------------------------------
\* Label mutation on a Message (message.py 79-417): one Message object whose
\* labels the caller changes through modify_labels and its wrappers, trash and
\* untrash.  The provider either applies the request it received, answers
\* with the labels unchanged, or the transport fails.

MaxCalls == 1      \* calls made on the message in one run

LabelIds == {"INBOX", "UNREAD", "STARRED", "TRASH"}
ArgIds == {"UNREAD", "STARRED"}

Chars(id) ==
    CASE id = "UNREAD"  -> <<"U", "N", "R", "E", "A", "D">>
      [] id = "STARRED" -> <<"S", "T", "A", "R", "R", "E", "D">>
      [] id = "INBOX"   -> <<"I", "N", "B", "O", "X">>
      [] id = "TRASH"   -> <<"T", "R", "A", "S", "H">>

StrOf(id) == PyStr(id, Chars(id))
INBOX == Label("INBOX")
TRASH == Label("TRASH")

\* the argument forms of Union[Label, str, List[Label], List[str]]
IdPairs == {p \in ArgIds \X ArgIds : p[1] # p[2]}
SingleArgs == {Label(id) : id \in ArgIds} \cup {StrOf(id) : id \in ArgIds}
ListArgs ==
    {PyList(<<>>)}
    \cup {PyList(<<Label(id)>>) : id \in ArgIds}
    \cup {PyList(<<StrOf(id)>>) : id \in ArgIds}
    \cup {PyList(<<Label(p[1]), Label(p[2])>>) : p \in IdPairs}
    \cup {PyList(<<StrOf(p[1]), StrOf(p[2])>>) : p \in IdPairs}
Args == SingleArgs \cup ListArgs

\* label lists a message can carry when it is built
InitialLabelIds ==
    {<<>>, <<"INBOX">>, <<"UNREAD">>, <<"STARRED">>, <<"TRASH">>,
     <<"INBOX", "UNREAD">>, <<"INBOX", "STARRED">>, <<"UNREAD", "STARRED">>,
     <<"INBOX", "UNREAD", "STARRED">>, <<"STARRED", "TRASH">>}

Outcomes == {"applied", "unchanged", "HttpError"}

\* what the provider answers to a request with the given body
Response(outcome, labelIds, body) ==
    IF outcome = "applied" THEN ServerModify(labelIds, body) ELSE labelIds

TrashBody == [addLabelIds |-> <<"TRASH">>, removeLabelIds |-> <<>>]
UntrashBody == [addLabelIds |-> <<>>, removeLabelIds |-> <<"TRASH">>]

\* the fields of a Message other than label_ids (message.py 32-65)
MessageFields ==
    [id |-> 1, thread_id |-> 101, user_id |-> "me",
     sender |-> <<"sender", 1>>, recipient |-> <<"recipient", 1>>,
     subject |-> <<"subject", 1>>, date |-> "2023-06-01", snippet |-> <<"snippet", 1>>,
     plain |-> Str(<<"plain", 1>>), html |-> Str(<<"html", 1>>),
     headers |-> <<>>, attachments |-> <<>>, cc |-> <<>>, bcc |-> <<>>]

\* what a call that succeeded assigns: self.label_ids = res["labelIds"]
\* (message.py 225, 257, 385)
AssignedLocally(message, res, body) ==
    [message EXCEPT !.label_ids = ServerModify(message.label_ids, body)]
Assigned(message, res, body) == [message EXCEPT !.label_ids = res]

\* the Message object: its label_ids and its other fields
Self == [label_ids |-> label_ids, fields |-> fields]

LabelsInit ==
    /\ cn = 0 /\ ci = 0 /\ csum = 0
    /\ FanIdle /\ RespIdle /\ PageIdle /\ AttIdle /\ NestIdle
    /\ fields = MessageFields
    /\ label_ids \in InitialLabelIds
    /\ lpc = "idle" /\ lerr = "none" /\ lcall = <<>>
    /\ lbefore = <<>> /\ lreqs = <<>> /\ lres = <<>> /\ lcalls = 0

\* modify_labels (message.py 334-385), entered through the named method
Modify(method, to_add, to_remove) ==
    /\ lcalls < MaxCalls
    /\ \E outcome \in Outcomes :
         LET req == ModifyRequest([id |-> 1], to_add, to_remove)
             res == Response(outcome, label_ids, req.body)
         IN /\ lcall' = [method |-> method, to_add |-> to_add,
                         to_remove |-> to_remove, outcome |-> outcome]
            /\ lreqs' = <<[op |-> "modify", id |-> req.id, body |-> req.body]>>
            /\ IF outcome = "HttpError"
                 THEN /\ lpc' = "raised" /\ lerr' = "HttpError"
                      /\ lres' = <<>>
                      /\ UNCHANGED <<label_ids, fields>>
                 ELSE /\ lres' = res
                      /\ IF ModifyAssertion(to_add, to_remove, res)
                           THEN /\ lpc' = "returned" /\ lerr' = "none"
                                /\ label_ids' = Assigned(Self, res, req.body).label_ids
                                /\ fields' = Assigned(Self, res, req.body).fields
                           ELSE /\ lpc' = "raised" /\ lerr' = "AssertionError"
                                /\ UNCHANGED <<label_ids, fields>>
    /\ lbefore' = label_ids
    /\ lcalls' = lcalls + 1
    /\ UNCHANGED <<chunkVars, fanVars, respVars, pageVars, attVars, nestVars>>

modify_labels == \E to_add \in Args, to_remove \in Args :
                     Modify("modify_labels", to_add, to_remove)
\* message.py 274-332
add_label == \E to_add \in SingleArgs : Modify("add_label", to_add, PyList(<<>>))
add_labels == \E to_add \in ListArgs : Modify("add_labels", to_add, PyList(<<>>))
remove_label ==
    \E to_remove \in SingleArgs : Modify("remove_label", PyList(<<>>), to_remove)
remove_labels ==
    \E to_remove \in ListArgs : Modify("remove_labels", PyList(<<>>), to_remove)
\* message.py 259-272
move_from_inbox == \E to \in SingleArgs : Modify("move_from_inbox", to, INBOX)
\* message.py 79-101
mark_as_read == Modify("mark_as_read", PyList(<<>>), UNREAD)
mark_as_unread == Modify("mark_as_unread", UNREAD, PyList(<<>>))

\* trash / untrash (message.py 195-257): the assertion tests label.TRASH itself
TrashLike(method, body, wanted) ==
    /\ lcalls < MaxCalls
    /\ \E outcome \in Outcomes :
         LET res == Response(outcome, label_ids, body)
         IN /\ lcall' = [method |-> method,
                         to_add |-> PyList(IF wanted THEN <<TRASH>> ELSE <<>>),
                         to_remove |-> PyList(IF wanted THEN <<>> ELSE <<TRASH>>),
                         outcome |-> outcome]
            /\ lreqs' = <<[op |-> method, id |-> 1, body |-> body]>>
            /\ IF outcome = "HttpError"
                 THEN /\ lpc' = "raised" /\ lerr' = "HttpError"
                      /\ lres' = <<>>
                      /\ UNCHANGED <<label_ids, fields>>
                 ELSE /\ lres' = res
                      /\ IF PyIn(TRASH, res) = wanted
                           THEN /\ lpc' = "returned" /\ lerr' = "none"
                                /\ label_ids' = Assigned(Self, res, body).label_ids
                                /\ fields' = Assigned(Self, res, body).fields
                           ELSE /\ lpc' = "raised" /\ lerr' = "AssertionError"
                                /\ UNCHANGED <<label_ids, fields>>
    /\ lbefore' = label_ids
    /\ lcalls' = lcalls + 1
    /\ UNCHANGED <<chunkVars, fanVars, respVars, pageVars, attVars, nestVars>>

trash == TrashLike("trash", TrashBody, TRUE)
untrash == TrashLike("untrash", UntrashBody, FALSE)

LabelsNext ==
    \/ modify_labels
    \/ add_label
    \/ add_labels
    \/ remove_label
    \/ remove_labels
    \/ move_from_inbox
    \/ mark_as_read
    \/ mark_as_unread
    \/ trash
    \/ untrash

SpecLabels == LabelsInit /\ [][LabelsNext]_vars

-----------------------------------------------------------------------------
\* Properties of label mutation.

\* the ids an argument asks for: the id of a single label, the ids of a list
IdsOf(arg) ==
    IF arg.tag = "list"
      THEN [j \in 1..Len(arg.items) |-> LabelId(arg.items[j])]
      ELSE <<LabelId(arg)>>
Called == lpc # "idle"
ModifyMethods == {"modify_labels", "add_label", "add_labels", "remove_label",
                  "remove_labels", "move_from_inbox", "mark_as_read",
                  "mark_as_unread"}
AllIn(ids, labelIds) == \A j \in 1..Len(ids) : InSeq(ids[j], labelIds)
NoneIn(ids, labelIds) == \A j \in 1..Len(ids) : ~InSeq(ids[j], labelIds)

\* C12: whenever a label-mutating call returns without raising, every label
\* it was asked to add is in label_ids and every label it was asked to remove
\* is not in label_ids.
C12_PostconditionOnReturn ==
    lpc = "returned" =>
        /\ AllIn(IdsOf(lcall.to_add), label_ids)
        /\ NoneIn(IdsOf(lcall.to_remove), label_ids)

\* C13: if the response to a modify call lacks an id that was to be added or
\* still contains an id that was to be removed, modify_labels raises an
\* assertion failure and leaves label_ids as it was, for every argument form.
C13_InconsistentResponseRaises ==
    (/\ Called /\ lcall.method \in ModifyMethods /\ lcall.outcome # "HttpError"
     /\ ~(AllIn(IdsOf(lcall.to_add), lres) /\ NoneIn(IdsOf(lcall.to_remove), lres)))
    => (lpc = "raised" /\ lerr = "AssertionError" /\ label_ids = lbefore)

\* C14: add_label with a label already on the message and remove_label with a
\* label already absent return without raising when the server applies the
\* request, and afterwards the label is in / not in label_ids.
C14_Idempotent ==
    /\ (/\ Called /\ lcall.method = "add_label" /\ lcall.outcome = "applied"
        /\ InSeq(LabelId(lcall.to_add), lbefore))
       => (lpc = "returned" /\ InSeq(LabelId(lcall.to_add), label_ids))
    /\ (/\ Called /\ lcall.method = "remove_label" /\ lcall.outcome = "applied"
        /\ ~InSeq(LabelId(lcall.to_remove), lbefore))
       => (lpc = "returned" /\ ~InSeq(LabelId(lcall.to_remove), label_ids))

\* C15: a modify_labels call, with single labels, id strings or lists of
\* either, issues exactly one modify request whose addLabelIds and
\* removeLabelIds are the ids of all the labels given in to_add and to_remove.
C15_RequestCarriesAllIds ==
    (Called /\ lcall.method \in ModifyMethods) =>
        /\ Len(lreqs) = 1
        /\ lreqs[1].op = "modify"
        /\ lreqs[1].body.addLabelIds = IdsOf(lcall.to_add)
        /\ lreqs[1].body.removeLabelIds = IdsOf(lcall.to_remove)


-----------------------------------------------------------------------------
\* Gmail.get_threads (client.py 724-795): the paginated thread search, whose
\* collected references go to _get_threads_from_refs (parallel by default).

MaxPages == 2      \* most pages the search has
MaxPageRefs == 6   \* most thread references on one page

\* A response of threads().list: with a "threads" key holding the references,
\* or without the key.  pageToken tells the position of the page.
PageSizes == {0, 1, MaxPageRefs}
PageRefs(p, n) == [j \in 1..n |-> [id |-> 10 * p + j]]
PageForms(p) ==
    {[hasThreads |-> FALSE, threads |-> <<>>]}
    \cup {[hasThreads |-> TRUE, threads |-> PageRefs(p, n)] : n \in PageSizes}

\* "nextPageToken" in response: the provider sends a token with every page
\* but the last
HasNextPageTokenNever(p) == FALSE
HasNextPageToken(p) == p < Len(pages)

\* except HttpError as error: raise error   (client.py 793-795)
OnListErrorSwallowed == [pc |-> "call", error |-> "none"]
OnListError == [pc |-> "raised", error |-> "HttpError"]

RECURSIVE Concat(_, _)
Concat(ps, n) == IF n = 0 THEN <<>> ELSE Concat(ps, n - 1) \o ps[n].threads

GetThreadsInit ==
    /\ cn = 0 /\ ci = 0 /\ csum = 0
    /\ RespIdle /\ LabIdle /\ AttIdle /\ NestIdle
    /\ \E len \in 1..MaxPages :
         /\ pages \in [1..len -> UNION {PageForms(p) : p \in 1..len}]
         /\ \A p \in 1..len : pages[p] \in PageForms(p)
         /\ failPage \in 0..len
    /\ failRef \in -1..(Len(Concat(pages, Len(pages))) - 1)
    /\ pageNo = 0
    /\ thread_refs = <<>>
    /\ parallel = TRUE
    /\ pc = "list"
    /\ k = 0 /\ acc = <<>> /\ thread_lists = <<>>
    /\ wpc = <<>> /\ wpos = <<>> /\ wacc = <<>> /\ conn = <<>>
    /\ result = <<>> /\ error = "none" /\ order = <<>>
    /\ creds_expired = FALSE /\ expiries = 0 /\ refreshed = {} /\ writes = {}

\* what follows a page that has returned: the next request, or the resolution
AfterPage(p) == IF HasNextPageToken(p) THEN "list" ELSE "call"

\* the first threads().list request (client.py 757-772)
ListFirst ==
    /\ pc = "list"
    /\ pageNo = 0
    /\ IF failPage = 1
         THEN /\ pc' = OnListError.pc
              /\ error' = OnListError.error
              /\ pageNo' = 1
              /\ UNCHANGED thread_refs
         ELSE /\ thread_refs' = IF pages[1].hasThreads THEN pages[1].threads
                                                       ELSE <<>>
              /\ pageNo' = 1
              /\ pc' = AfterPage(1)
              /\ UNCHANGED error
    /\ UNCHANGED <<chunkVars, respVars, labVars, attVars, nestVars, pages, failPage, credVars,
                   writes, order, parallel, failRef, k, acc, thread_lists, wpc,
                   wpos, wacc, conn, result>>

\* one turn of "while 'nextPageToken' in response" (client.py 774-789)
ListNext ==
    /\ pc = "list"
    /\ pageNo >= 1
    /\ LET p == pageNo + 1
       IN IF failPage = p
            THEN /\ pc' = OnListError.pc
                 /\ error' = OnListError.error
                 /\ pageNo' = p
                 /\ UNCHANGED thread_refs
            ELSE IF ~pages[p].hasThreads
              THEN /\ pc' = "raised"
                   /\ error' = "KeyError"
                   /\ pageNo' = p
                   /\ UNCHANGED thread_refs
              ELSE /\ thread_refs' = thread_refs \o pages[p].threads
                   /\ pageNo' = p
                   /\ pc' = AfterPage(p)
                   /\ UNCHANGED error
    /\ UNCHANGED <<chunkVars, respVars, labVars, attVars, nestVars, pages, failPage, credVars,
                   writes, order, parallel, failRef, k, acc, thread_lists, wpc,
                   wpos, wacc, conn, result>>

GetThreadsNext ==
    \/ ListFirst
    \/ ListNext
    \/ ReturnEmpty
    \/ ParBegin
    \/ StartWorker
    \/ \E t \in Workers : WorkerOpen(t)
    \/ \E t \in Workers : WorkerFetch(t)
    \/ \E t \in Workers : WorkerStore(t)
    \/ \E t \in Workers : WorkerClose(t)
    \/ JoinWorker
    \/ ParReturn

SpecGetThreads == GetThreadsInit /\ [][GetThreadsNext]_vars

-----------------------------------------------------------------------------
\* Properties of get_threads.

AllPageRefs == Concat(pages, Len(pages))
\* no thread-resolution request has been issued and nothing has been returned
NothingResolved ==
    /\ Workers = {} /\ thread_lists = <<>> /\ acc = <<>> /\ result = <<>>
    /\ order = <<>> /\ writes = {}
ListingOver == pc \notin {"list", "raised"}

C17_PageFailureDiscardsAll ==
    (failPage # 0 /\ pageNo >= failPage) =>
        /\ pc = "raised"
        /\ error = "HttpError"
        /\ pageNo = failPage
        /\ NothingResolved

\* C17 witness: the first page brought references, the second request failed.
C17_Witness ==
    /\ failPage = 2 /\ pageNo = 2 /\ pc = "raised" /\ error = "HttpError"
    /\ Len(pages[1].threads) = MaxPageRefs
    /\ result = <<>>


-----------------------------------------------------------------------------
\* Properties of the state the fan-out workers share.

\* worker i assigns only slot i, and the caller has the concatenation of the
\* slots in index order only once every worker has ended
SlotDiscipline ==
    /\ \A w \in writes : w[1] = w[2]
    /\ (pc = "returned" /\ parallel /\ N > 0) =>
          /\ \A t \in Workers : WorkerTerminated(t)
          /\ result = SumLists(thread_lists, NumThreads(N))

\* C18: the workers share no mutable state but the result slots: worker i
\* writes only slot i, no two workers write the same slot, the caller
\* concatenates the slots in index order after every worker has ended, and
\* no worker changes anything else the workers share.
C18_OnlySlotsShared ==
    /\ SlotDiscipline
    /\ \A t \in Workers : \A where \in {"init", "service"} :
          <<t, where>> \notin refreshed

\* C19: the workers only read the credentials they share with the parent
\* client: no worker refreshes them or rewrites the token file, also when
\* they are expired at the time of the fan-out.
C19_WorkersOnlyReadCreds == refreshed = {}


-----------------------------------------------------------------------------
\* Attachment (attachment.py 20-87): one attachment of a message, its
\* payload held by the provider, and the files save() writes.

MaxAttOps == 3     \* download() / save() calls made on the attachment

\* the URL-safe base64 alphabet
Alphabet ==
    <<"A", "B", "C", "D", "E", "F", "G", "H", "I", "J", "K", "L", "M", "N", "O", "P",
      "Q", "R", "S", "T", "U", "V", "W", "X", "Y", "Z", "a", "b", "c", "d", "e", "f",
      "g", "h", "i", "j", "k", "l", "m", "n", "o", "p", "q", "r", "s", "t", "u", "v",
      "w", "x", "y", "z", "0", "1", "2", "3", "4", "5", "6", "7", "8", "9", "-", "_">>

B64Val(c) == IF c = "=" THEN 0 ELSE (CHOOSE v \in 1..64 : Alphabet[v] = c) - 1
Pads(chars) == Cardinality({j \in 1..Len(chars) : chars[j] = "="})

\* base64.urlsafe_b64decode (attachment.py 57): every four characters give
\* three bytes, less one byte per "=" of padding; a text whose length is not
\* a multiple of four is rejected (binascii.Error: Incorrect padding)
ValidB64(chars) == Len(chars) % 4 = 0
RECURSIVE DecodeGroups(_)
DecodeGroups(chars) ==
    IF Len(chars) < 4 THEN <<>>
    ELSE LET n == B64Val(chars[1]) * 262144 + B64Val(chars[2]) * 4096
                  + B64Val(chars[3]) * 64 + B64Val(chars[4])
             three == <<n \div 65536, (n \div 256) % 256, n % 256>>
         IN SubSeq(three, 1, 3 - Pads(SubSeq(chars, 1, 4)))
            \o DecodeGroups(SubSeq(chars, 5, Len(chars)))
urlsafe_b64decode(chars) == DecodeGroups(chars)

Bytes(b) == [some |-> TRUE, text |-> b]

\* res["data"] of attachments().get
Payloads ==
    {<<>>,
     <<"Q", "Q", "=", "=">>,
     <<"Q", "U", "I", "=">>,
     <<"-", "_", "8", "=">>,
     <<"Q", "U", "J", "D", "R", "A", "=", "=">>,
     <<"Q", "U", "I">>}

Absent == [exists |-> FALSE, content |-> <<>>]
File(content) == [exists |-> TRUE, content |-> content]
filename == "report.pdf"
Paths == {filename, "out.bin"}

\* "if self.data is not None: return"   (attachment.py 41-42)
DownloadNeededAlways(d) == TRUE
DownloadNeeded(d) == d = None

AttachmentInit ==
    /\ cn = 0 /\ ci = 0 /\ csum = 0
    /\ FanIdle /\ RespIdle /\ PageIdle /\ LabIdle /\ NestIdle
    /\ payload \in Payloads
    /\ data \in {None} \cup (IF ValidB64(payload)
                               THEN {Bytes(urlsafe_b64decode(payload))} ELSE {})
    /\ data0 = data
    /\ fetches = 0
    /\ files \in [Paths -> {Absent, File(<<0>>)}]
    /\ apc = "idle" /\ aerr = "none" /\ acall = <<>> /\ aops = 0

\* the body of download(): the outcome and the fields it leaves
\* (attachment.py 41-57)
DownloadResult(d, fetchOk) ==
    IF ~DownloadNeeded(d)
      THEN [data |-> d, fetched |-> 0, err |-> "none"]
    ELSE IF ~fetchOk
      THEN [data |-> d, fetched |-> 1, err |-> "HttpError"]
    ELSE IF ~ValidB64(payload)
      THEN [data |-> d, fetched |-> 1, err |-> "binascii.Error"]
    ELSE [data |-> Bytes(urlsafe_b64decode(payload)), fetched |-> 1, err |-> "none"]

\* Attachment.download (attachment.py 31-57)
Download ==
    /\ aops < MaxAttOps
    /\ \E fetchOk \in BOOLEAN :
         LET r == DownloadResult(data, fetchOk)
         IN /\ data' = r.data
            /\ fetches' = fetches + r.fetched
            /\ aerr' = r.err
            /\ apc' = IF r.err = "none" THEN "returned" ELSE "raised"
            /\ acall' = [method |-> "download", fetchOk |-> fetchOk]
    /\ aops' = aops + 1
    /\ UNCHANGED <<chunkVars, fanVars, respVars, pageVars, labVars, nestVars, data0,
                   payload, files>>

\* "if self.data:" (attachment.py 85): bytes that are not empty
HasData(d) == d.some /\ d.text # <<>>

\* "if not overwrite and os.path.exists(filepath): raise FileExistsError"
\* (attachment.py 80-84)
MayWriteAlways(overwrite, exists) == TRUE
MayWrite(overwrite, exists) == overwrite \/ ~exists

\* "if filepath is None: filepath = self.filename"   (attachment.py 74-75)
PathOf(filepath) == IF filepath = "None" THEN filename ELSE filepath

\* Attachment.save (attachment.py 59-87)
Save ==
    /\ aops < MaxAttOps
    /\ \E filepath \in Paths \cup {"None"}, overwrite \in BOOLEAN, fetchOk \in BOOLEAN :
         LET path == PathOf(filepath)
             r == IF data = None THEN DownloadResult(data, fetchOk)
                                 ELSE [data |-> data, fetched |-> 0, err |-> "none"]
         IN /\ data' = r.data
            /\ fetches' = fetches + r.fetched
            /\ acall' = [method |-> "save", filepath |-> filepath,
                         overwrite |-> overwrite, fetchOk |-> fetchOk]
            /\ IF r.err # "none"
                 THEN /\ apc' = "raised" /\ aerr' = r.err
                      /\ UNCHANGED files
                 ELSE IF ~MayWrite(overwrite, files[path].exists)
                   THEN /\ apc' = "raised" /\ aerr' = "FileExistsError"
                        /\ UNCHANGED files
                   ELSE /\ apc' = "returned" /\ aerr' = "none"
                        /\ files' = IF HasData(r.data)
                                      THEN [files EXCEPT ![path] = File(r.data.text)]
                                      ELSE files
    /\ aops' = aops + 1
    /\ UNCHANGED <<chunkVars, fanVars, respVars, pageVars, labVars, nestVars, data0, payload>>

AttachmentNext ==
    \/ Download
    \/ Save

SpecAttachment == AttachmentInit /\ [][AttachmentNext]_vars

-----------------------------------------------------------------------------
\* Properties of the attachment.

\* C20: the payload is fetched at most once: a call issues a remote fetch
\* only when data is unset, and once data is set every later download() or
\* save() issues no fetch and leaves data unchanged (a fetch that succeeded
\* set data to the decoded payload).
C20_FetchedAtMostOnce ==
    [][/\ (fetches' # fetches => (data = None /\ fetches' = fetches + 1))
       /\ (data # None => (data' = data /\ fetches' = fetches))
       /\ ((data = None /\ data' # None) =>
             (fetches' = fetches + 1 /\ data' = Bytes(urlsafe_b64decode(payload))))
      ]_vars

\* C20 witness: data was unset at construction, the first call fetched and
\* stored the payload, and two later calls, the last one a download(), have
\* run without a fetch.
C20_Witness ==
    /\ data0 = None /\ data # None /\ HasData(data)
    /\ fetches = 1 /\ aops = 3
    /\ acall.method = "download" /\ apc = "returned"


\* the step is a save(filepath, overwrite=False) on a path that exists
SaveOntoExisting ==
    /\ aops' = aops + 1
    /\ acall'.method = "save"
    /\ ~acall'.overwrite
    /\ files[PathOf(acall'.filepath)].exists

\* C21 (as stated): save with overwrite=False on a path that exists raises
\* the file-exists error and writes nothing; the file's content is unchanged.
C21_ExistingFileKept ==
    [][SaveOntoExisting =>
          (apc' = "raised" /\ aerr' = "FileExistsError" /\ files' = files)]_vars

\* C21 (amended): save with overwrite=False on a path that exists raises and
\* writes nothing, the file's content is unchanged; the error is the
\* file-exists error unless data was unset and the download save() makes
\* first failed, whose error is then the one raised.
C21_ExistingFileKeptUnlessDownloadFails ==
    [][SaveOntoExisting =>
          /\ apc' = "raised"
          /\ files' = files
          /\ aerr' = IF data = None
                          /\ DownloadResult(data, acall'.fetchOk).err # "none"
                       THEN DownloadResult(data, acall'.fetchOk).err
                       ELSE "FileExistsError"]_vars

\* C21 witness: a save with overwrite=False of an attachment holding bytes,
\* onto a file that exists, has raised the file-exists error and the file
\* still has its old content.
C21_Witness ==
    /\ apc = "raised" /\ aerr = "FileExistsError"
    /\ acall.method = "save" /\ ~acall.overwrite
    /\ HasData(data) /\ data.text # <<0>>
    /\ files[PathOf(acall.filepath)] = File(<<0>>)


-----------------------------------------------------------------------------
\* Further properties of respond() and of label mutation.

GetThreadsCalls == {j \in LogIdx : log[j].op = "get_threads"}

\* C22: each respond() invocation calls get_threads exactly once, with the
\* label filter [UNREAD] and nothing else, for every delivery mode and
\* whatever the threads contain, and produces the reply with the generate
\* function the caller supplied.
C22_OneUnreadQueryAndSuppliedGenerate ==
    rpc # "start" =>
        /\ Cardinality(GetThreadsCalls) = invocation
        /\ \A j \in GetThreadsCalls : log[j].labels = <<"UNREAD">>
        /\ \A j \in LogIdx : log[j].op = "generate" =>
              log[j].via = (IF handle_body = "given" THEN "handle_body" ELSE call)

\* C23: a label mutation, trash or untrash that succeeds changes only
\* label_ids, which becomes exactly the label set of the server's response;
\* every other field of the Message is unchanged.
C23_OnlyLabelIdsChange ==
    /\ lpc = "returned" => label_ids = lres
    /\ Called => fields = MessageFields

\* C23 witness: a call returned after a response that changed the labels.
C23_Witness ==
    /\ lpc = "returned" /\ lcall.method = "remove_label"
    /\ lbefore = <<"INBOX", "UNREAD">> /\ label_ids = <<"INBOX">>
    /\ fields = MessageFields


-----------------------------------------------------------------------------
\* Further properties of the fan-out.

\* the claim's figures: P = min(ceil(n/10), 12), batch_size = ceil(n/P)
ClaimP(n) == IF (n + 9) \div 10 <= 12 THEN (n + 9) \div 10 ELSE 12
ClaimBatch(n) == (n + ClaimP(n) - 1) \div ClaimP(n)
ClaimLo(n, i) == i * ClaimBatch(n)
ClaimHi(n, i) == IF (i + 1) * ClaimBatch(n) <= n THEN (i + 1) * ClaimBatch(n) ELSE n

\* for a list of length n the code's worker count and ranges are the
\* claim's, and every index lies in the range of exactly one worker
PartitionAsClaimed(n) ==
    /\ NumThreads(n) = ClaimP(n)
    /\ NumThreads(n) >= 1 /\ NumThreads(n) <= 12
    /\ \A t \in 0..(NumThreads(n) - 1) :
          RangeLen(ChunkStart(n, t), ChunkEnd(n, t))
            = RangeLen(ClaimLo(n, t), ClaimHi(n, t))
          /\ (ChunkSize(n, t) > 0 =>
                (ChunkStart(n, t) = ClaimLo(n, t) /\ ChunkEnd(n, t) = ClaimHi(n, t)))
    /\ \A idx \in 0..(n - 1) :
          Cardinality({t \in 0..(NumThreads(n) - 1) :
                          ChunkStart(n, t) <= idx /\ idx < ChunkEnd(n, t)}) = 1

\* the entities worker t has fetched are those of the indices from the start
\* of its range up to its position, in order
FetchedOwnRange(t) ==
    /\ wpos[t] >= ClaimLo(N, t) /\ wpos[t] <= ClaimHi(N, t)
    /\ wacc[t] = [j \in 1..(wpos[t] - ClaimLo(N, t)) |->
                    BuildFromRef(thread_refs[ClaimLo(N, t) + j])]

\* C24: for N >= 1 the parallel fan-out starts exactly P = min(ceil(N/10), 12)
\* workers, worker i resolves exactly the indices [i*batch_size,
\* min(N, (i+1)*batch_size)) with batch_size = ceil(N/P), and every index is
\* resolved by exactly one worker.  The arithmetic is examined for every list
\* length up to MaxN when a call begins, the workers in every run.
C24_ExactPartition ==
    /\ (pc = "call" /\ failRef = -1 /\ ~creds_expired) =>
          \A n \in 1..MaxN : PartitionAsClaimed(n)
    /\ (parallel /\ N >= 1 /\ pc \in {"join", "returned"}) =>
          Workers = 0..(ClaimP(N) - 1)
    /\ \A t \in Workers : wpc[t] \in {"fetch", "close", "done", "dead"} =>
          FetchedOwnRange(t)
    /\ \A t \in Workers : wpc[t] \in {"close", "done"} =>
          /\ wpos[t] = ClaimHi(N, t)
          /\ thread_lists[t] = wacc[t]
    /\ (parallel /\ N >= 1 /\ pc = "returned" /\ failRef = -1) =>
          \A idx \in 0..(N - 1) :
             Cardinality({t \in Workers :
                             \E j \in 1..Len(thread_lists[t]) :
                                thread_lists[t][j] = BuildFromRef(RefAt(idx))}) = 1

\* C24 witness: 21 references were resolved by three workers of seven each.
C24_Witness ==
    /\ pc = "returned" /\ parallel /\ failRef = -1 /\ N = MaxRefs
    /\ Workers = 0..2
    /\ \A t \in Workers : wpc[t] = "done" /\ Len(thread_lists[t]) = 7
    /\ thread_lists[1][1] = BuildFromRef(RefAt(7))


-----------------------------------------------------------------------------
\* The nested fan-out (client.py 143-172, 215-221, 264-293): each thread
\* worker resolves its references one after the other, and resolving a thread
\* runs _get_messages_from_refs, which starts its own workers for the
\* messages of that thread and joins them before it returns.

MaxNestRefs == 11   \* largest reference list of the nested run

\* len(message_refs) of a thread the provider returns
MsgCounts == {0, 1, 60}

ThreadWorkers == DOMAIN tw

NestedInit ==
    /\ cn = 0 /\ ci = 0 /\ csum = 0
    /\ FanIdle /\ RespIdle /\ PageIdle /\ LabIdle /\ AttIdle
    /\ nrefs \in 1..MaxNestRefs
    /\ tw = [t \in 0..(NumThreads(nrefs) - 1) |->
               [st |-> "unstarted", pos |-> ChunkStart(nrefs, t),
                pm |-> 0, started |-> 0, ended |-> 0]]

\* for t in threads: t.start()   (client.py 168-169)
ThreadWorkerStart(t) ==
    /\ tw[t].st = "unstarted"
    /\ IF t = 0 THEN TRUE ELSE tw[t - 1].st # "unstarted"
    /\ tw' = [tw EXCEPT ![t].st = "fetch"]
    /\ UNCHANGED <<chunkVars, fanVars, respVars, pageVars, labVars, attVars, nrefs>>

\* _build_thread_from_ref up to the call of _get_messages_from_refs
\* (client.py 197-219, 260-270): an empty message list returns at once,
\* otherwise num_threads message workers are to be started
ThreadGet(t) ==
    /\ tw[t].st = "fetch"
    /\ tw[t].pos < ChunkEnd(nrefs, t)
    /\ \E m \in MsgCounts :
         IF m = 0
           THEN tw' = [tw EXCEPT ![t].pos = @ + 1]
           ELSE tw' = [tw EXCEPT ![t].st = "fanout", ![t].pm = NumThreads(m),
                                 ![t].started = 0, ![t].ended = 0]
    /\ UNCHANGED <<chunkVars, fanVars, respVars, pageVars, labVars, attVars, nrefs>>

\* for t in threads: t.start()   (client.py 289-290)
MessageWorkerStart(t) ==
    /\ tw[t].st = "fanout"
    /\ tw[t].started < tw[t].pm
    /\ tw' = [tw EXCEPT ![t].started = @ + 1]
    /\ UNCHANGED <<chunkVars, fanVars, respVars, pageVars, labVars, attVars, nrefs>>

\* a message worker has run thread_download_batch to its end (client.py 272-281)
MessageWorkerEnd(t) ==
    /\ tw[t].st = "fanout"
    /\ tw[t].ended < tw[t].started
    /\ tw' = [tw EXCEPT ![t].ended = @ + 1]
    /\ UNCHANGED <<chunkVars, fanVars, respVars, pageVars, labVars, attVars, nrefs>>

\* for t in threads: t.join(); return ...   (client.py 292-295, 221)
MessagesJoined(t) ==
    /\ tw[t].st = "fanout"
    /\ tw[t].started = tw[t].pm
    /\ tw[t].ended = tw[t].pm
    /\ tw' = [tw EXCEPT ![t].st = "fetch", ![t].pos = @ + 1, ![t].pm = 0,
                        ![t].started = 0, ![t].ended = 0]
    /\ UNCHANGED <<chunkVars, fanVars, respVars, pageVars, labVars, attVars, nrefs>>

\* the thread worker has resolved its range (client.py 156-161)
ThreadWorkerEnd(t) ==
    /\ tw[t].st = "fetch"
    /\ tw[t].pos >= ChunkEnd(nrefs, t)
    /\ tw' = [tw EXCEPT ![t].st = "done"]
    /\ UNCHANGED <<chunkVars, fanVars, respVars, pageVars, labVars, attVars, nrefs>>

NestedNext ==
    \/ \E t \in ThreadWorkers : ThreadWorkerStart(t)
    \/ \E t \in ThreadWorkers : ThreadGet(t)
    \/ \E t \in ThreadWorkers : MessageWorkerStart(t)
    \/ \E t \in ThreadWorkers : MessageWorkerEnd(t)
    \/ \E t \in ThreadWorkers : MessagesJoined(t)
    \/ \E t \in ThreadWorkers : ThreadWorkerEnd(t)

SpecNested == NestedInit /\ [][NestedNext]_vars

\* the worker threads alive: thread workers that were started and have not
\* ended, and the message workers they started that have not ended
RECURSIVE MessageWorkersAlive(_)
MessageWorkersAlive(n) ==
    IF n = 0 THEN 0
    ELSE (tw[n - 1].started - tw[n - 1].ended) + MessageWorkersAlive(n - 1)
ThreadWorkersAlive == Cardinality({t \in ThreadWorkers : tw[t].st \in {"fetch", "fanout"}})
Alive == ThreadWorkersAlive + MessageWorkersAlive(NumThreads(nrefs))

\* C25: during one get_threads call at no point are more than 12 fetch worker
\* threads alive at the same time, the workers of the per-thread message
\* fan-out included.
C25_AtMostTwelveAlive == Alive <= max_num_threads


-----------------------------------------------------------------------------
\* Further properties of respond(): the order of the steps of one thread.

LastOp == IF Len(log) = 0 THEN "none" ELSE log[Len(log)].op
StillUnread(message) == InSeq("UNREAD", message.label_ids)

\* C26: within one thread the steps happen in the order generate, deliver,
\* mark-as-read: a delivery directly follows the generate call of its thread
\* and a modify request the delivery of its thread; when the generate call
\* fails nothing is delivered and nothing is marked read, and when the
\* delivery fails the original message keeps its UNREAD label.
C26_GenerateDeliverMarkInOrder ==
    /\ \A j \in LogIdx : log[j].op \in Deliveries =>
          (j > 1 /\ log[j - 1].op = "generate" /\ log[j - 1].at = log[j].at)
    /\ \A j \in LogIdx : log[j].op = "modify" =>
          (j > 1 /\ log[j - 1].op \in Deliveries /\ log[j - 1].at = log[j].at)
    /\ rerror = "CallError" =>
          /\ rpc = "raised" /\ LastOp = "generate"
          /\ ~HasEntry(ti, Deliveries \cup {"modify"})
          /\ StillUnread(MostRecent(ti))
    /\ (rerror = "HttpError" /\ LastOp \in Deliveries) =>
          /\ rpc = "raised"
          /\ ~HasEntry(ti, {"modify"})
          /\ StillUnread(MostRecent(ti))
          /\ mailbox[ti] = threads[ti]

\* C26 witness: the first thread went through its three steps, the delivery
\* for the second thread failed and its last message is still unread.
C26_Witness ==
    /\ rpc = "raised" /\ rerror = "HttpError" /\ ti = 2
    /\ LastOp \in Deliveries
    /\ HasEntry(1, {"modify"}) /\ HasEntry(2, {"generate"})
    /\ StillUnread(MostRecent(2)) /\ ~StillUnread(MostRecent(1))


\* no message of thread i has an HTML or a plain body
Bodiless(i) ==
    \A m \in 1..Len(threads[i].messages) :
        threads[i].messages[m].html = None /\ threads[i].messages[m].plain = None
EntryOf(i, ops) == CHOOSE j \in LogIdx : log[j].at = i /\ log[j].op \in ops

\* C28: a thread with at least one message of which none has an HTML or plain
\* body is not skipped: the generate function is called with an empty body
\* list, the reply is delivered in answer to the last message, and that
\* message is marked read.
C28_BodilessThreadHandled ==
    \A i \in ThreadIdx : (NonEmpty(i) /\ Bodiless(i)) =>
        /\ (i < ti \/ (i = ti /\ rpc \in {"generated", "delivered"})) =>
              /\ HasEntry(i, {"generate"})
              /\ log[EntryOf(i, {"generate"})].body = <<>>
        /\ (i < ti \/ (i = ti /\ rpc = "delivered")) =>
              /\ HasEntry(i, Deliveries)
              /\ log[EntryOf(i, Deliveries)].msg.InReplyTo = MostRecent(i).id
        /\ i < ti =>
              /\ HasEntry(i, {"modify"})
              /\ log[EntryOf(i, {"modify"})].id = MostRecent(i).id
              /\ ~StillUnread(MostRecent(i))

\* C28 witness: respond() has returned after handling a thread of two
\* messages without any body.
C28_Witness ==
    /\ rpc = "done" /\ Len(threads) = 1
    /\ Len(threads[1].messages) = 2 /\ Bodiless(1)
    /\ HasEntry(1, {"generate"}) /\ log[EntryOf(1, {"generate"})].body = <<>>
    /\ HasEntry(1, Deliveries) /\ ~StillUnread(MostRecent(1))


\* ---------------------------------------------------------------------------
\* The polling loop (examples/read_unread_inbox_and_answer_questions.py 43-48):
\* "while True: mail.respond(...); time.sleep(10)". No mail arrives between
\* two invocations; the provider answers the UNREAD query of the next
\* invocation from what the earlier invocations left in the mailbox.

MaxInvocations == 2   \* respond() invocations of the loop

\* the provider lists a thread under a label when one of its messages has it
HasUnread(thread) ==
    \E m \in 1..Len(thread.messages) : InSeq(UNREAD.id, thread.messages[m].label_ids)
UnreadThreads == SelectSeq(mailbox, HasUnread)

\* respond() has returned, the loop sleeps and calls it again
Poll ==
    /\ rpc = "done"
    /\ invocation < MaxInvocations
    /\ invocation' = invocation + 1
    /\ threads' = UnreadThreads
    /\ rpc' = "start"
    /\ ti' = 0
    /\ UNCHANGED <<chunkVars, fanVars, otherVars, handle_body, mailbox,
                   send_type_arg, call, reply, log, rerror>>

PollInit == RespondInit

PollNext ==
    \/ RespondTypeError
    \/ GetThreads
    \/ SkipThread
    \/ Generate
    \/ Deliver
    \/ MarkAsRead
    \/ RespondReturn
    \/ Poll

SpecPoll == PollInit /\ [][PollNext]_vars

\* the replies, sent or drafted, the provider holds in a thread
RepliesIn(thread) ==
    {m \in 1..Len(thread.messages) :
        thread.messages[m].label_ids \in {<<"SENT">>, <<"DRAFT">>}}

\* C27: over consecutive respond() invocations without new mail every thread
\* holds at most one reply, one draft or one sent message, also when the
\* thread holds several unread messages.
C27_AtMostOneReplyPerThread ==
    \A j \in 1..Len(mailbox) : Cardinality(RepliesIn(mailbox[j])) <= 1

=============================================================================
